---- MODULE Spec2Model ----
(***************************************************************************)
(* Luna EstroPad tracker: the patches store (inventory, applications,      *)
(* patch types, the derived activePatches and lowInventoryAlerts) and the  *)
(* notifications store's due-notification scan.                            *)
(*                                                                         *)
(* Time is counted in ticks; one hour is TicksPerHour ticks, so that       *)
(* durations with a fractional number of hours can be written.  Date       *)
(* objects are modelled by their time value (an ISO string carries the     *)
(* same milliseconds back into a Date); the local time zone is taken to    *)
(* have a constant UTC offset.                                             *)
(***************************************************************************)
EXTENDS Integers, Sequences, FiniteSets, TLC

VARIABLES
  patchTypes,              \* patches store: patchTypes.value
  inventory,               \* patches store: inventory.value
  applications,            \* patches store: applications.value
  now,                     \* the clock read by Date.now() / new Date()
  activeAt,                \* when the cached activePatches was computed, -1 if stale
  preferences,             \* notifications store: preferences.value
  notificationPermission,  \* notifications store: notificationPermission.value
  scanLog,                 \* what each scan sent, since anything last changed
  lastOp,                  \* the last call and whether it was accepted
  timers,                  \* the ids of the intervals that are running
  unloadListeners,         \* the interval ids the beforeunload listeners clear
  pageLoaded,              \* FALSE once the page has been torn down
  user,                    \* auth store: user.value
  isLoading,               \* auth store: isLoading.value
  error,                   \* auth store: error.value
  pending,                 \* the auth call that awaits the backend's answer
  message,                 \* the text of the last ElMessage shown
  route,                   \* the route the router was last pushed to
  mount                    \* the dashboard's init calls: where each stands, what the backend holds

vars == <<patchTypes, inventory, applications, now, activeAt, preferences,
          notificationPermission, scanLog, lastOp, timers, unloadListeners,
          pageLoaded, user, isLoading, error, pending, message, route, mount>>

storeVars == <<patchTypes, inventory, applications>>
notifVars == <<preferences, notificationPermission>>
timerVars == <<timers, unloadListeners, pageLoaded>>
authVars == <<user, isLoading, error, pending, message, route>>

(* ---------------------------- bounds ----------------------------------- *)
TicksPerHour == 2
MaxTime == 1
MaxApps == 2
MaxCustom == 1
MaxStock == 4
MaxScans == 2
MaxScanTime == 2
MaxScanApps == 1
MaxOrderTime == 2
MaxOrderApps == 3
MaxInits == 2
MaxTwins == 2

(* --------------------------- helpers ----------------------------------- *)
Range(s) == {s[i] : i \in 1..Len(s)}

\* Math.max
Max(a, b) == IF a >= b THEN a ELSE b

\* Array.prototype.findIndex, given the test's result for each element: the
\* first index whose element passes, 0 (for -1) when there is none.
FindIndex(hits) ==
  IF \E i \in 1..Len(hits) : hits[i]
  THEN CHOOSE i \in 1..Len(hits) : hits[i] /\ \A j \in 1..(i - 1) : ~hits[j]
  ELSE 0

\* A variant that removes everything from the index on
RemoveFrom(s, i) == SubSeq(s, 1, i - 1)

\* Array.prototype.splice(index, 1)
RemoveAt(s, i) == SubSeq(s, 1, i - 1) \o SubSeq(s, i + 1, Len(s))

\* inventory.value.find(item => item.patchTypeId === patchTypeId), as an index
InventoryIndex(inv, patchTypeId) ==
  FindIndex([k \in 1..Len(inv) |-> inv[k].patchTypeId = patchTypeId])

\* applications.value.findIndex(app => app.id === applicationId)
ApplicationIndexOrFirst(apps, applicationId) ==
  Max(FindIndex([k \in 1..Len(apps) |-> apps[k].id = applicationId]),
      IF Len(apps) > 0 THEN 1 ELSE 0)

ApplicationIndex(apps, applicationId) ==
  FindIndex([k \in 1..Len(apps) |-> apps[k].id = applicationId])

\* getPatchType: patchTypes.value.find(type => type.id === patchTypeId), as
\* an index
getPatchType(types, patchTypeId) ==
  FindIndex([k \in 1..Len(types) |-> types[k].id = patchTypeId])

\* Date.now().toString()
ApplicationId(t) == ToString(t)

\* `custom-${Date.now()}`
CustomId(t) == "custom-" \o ToString(t)

NoSuchId == "no-such-id"

\* The ids a caller can name: those listed, and one that names nothing.
KnownPatchTypeIds == {patchTypes[i].id : i \in 1..Len(patchTypes)}
PatchTypeArgs == KnownPatchTypeIds \cup {NoSuchId}
ApplicationArgs ==
  {applications[i].id : i \in 1..Len(applications)}
    \cup {ApplicationId(t) : t \in 0..now} \cup {NoSuchId}

\* The quantities the inventory form and the table's buttons pass: positive
\* whole numbers to add; 0, 1 or the whole count ("Remove All") to remove.
AddCounts == {1}
RemoveCounts(patchTypeId) ==
  LET i == InventoryIndex(inventory, patchTypeId) IN
  {0, 1} \cup (IF i # 0 THEN {inventory[i].count} ELSE {})

\* The settings form's defaults for a new custom type: 'Custom Patch',
\* durationDays 3 (times 24 hours)
FormName == "Custom Patch"
FormDuration == 3 * 24 * TicksPerHour

\* The durations the settings form passes (durationDays * 24, in ticks):
\* here an hour and a fraction of an hour.
Durations == {TicksPerHour + 1}

\* The last call: its name and the message of the Error it threw ("" if none)
Op(op, err) == [op |-> op, error |-> err]
Done(op) == Op(op, "")

(* ------------------------- initial state ------------------------------- *)
\* An email address, by its parts around the '@'; the empty input
Email(local, domain) == [local |-> local, domain |-> domain]
NoEmail == Email("", "")

\* user.value = null, error.value = null, no call in flight
NoUser == [id |-> "", username |-> "", email |-> NoEmail]
NoError == ""
NoCall == [call |-> "", username |-> "", email |-> NoEmail]

DefaultPatchTypes ==
  << [id |-> "estradiol-2day", name |-> "Estradiol (2 day)",
      durationHours |-> 48 * TicksPerHour, enabled |-> TRUE, isCustom |-> FALSE],
     [id |-> "estradiol-week", name |-> "Estradiol (Weekly)",
      durationHours |-> 168 * TicksPerHour, enabled |-> TRUE, isCustom |-> FALSE] >>

DefaultInventory ==
  << [patchTypeId |-> "estradiol-2day", count |-> 10],
     [patchTypeId |-> "estradiol-week", count |-> 5] >>

\* What local storage holds under 'patch-inventory' when the store is
\* constructed, if it holds anything: an inventory that an earlier session
\* saved (the defaults after removeFromInventory calls).
StoredInventory ==
  << [patchTypeId |-> "estradiol-2day", count |-> 4],
     [patchTypeId |-> "estradiol-week", count |-> 1] >>

\* useLocalStorage(key, defaults): the stored value, the defaults without one
useLocalStorage(hasStored, stored, defaults) == IF hasStored THEN stored ELSE defaults

DefaultPreferences ==
  [enableBrowserNotifications |-> TRUE, enableEmailNotifications |-> FALSE,
   notifyBeforeHours |-> 24, emailAddress |-> ""]

\* What supabase.auth.getSession() finds: no session, or a signed-in user
NoSession == [ok |-> FALSE, id |-> "", username |-> "", email |-> NoEmail, message |-> ""]

\* What the notification_preferences table holds for the user: no row, or
\* a row
NoRow ==
  [found |-> FALSE, enable_browser_notifications |-> TRUE,
   enable_email_notifications |-> FALSE, notify_before_hours |-> 24,
   email_address |-> ""]

\* The page as loaded: the stores as constructed, over a local storage that
\* holds an inventory (hasStored) or over an empty one (a first run), and
\* over a backend that holds the session and the preferences row given
InitPage(hasStored, session, row) ==
  /\ patchTypes = DefaultPatchTypes
  /\ inventory = useLocalStorage(hasStored, StoredInventory, DefaultInventory)
  /\ applications = << >>
  /\ now = 0
  /\ activeAt = -1
  /\ preferences = DefaultPreferences
  /\ notificationPermission = "default"
  /\ scanLog = << >>
  /\ lastOp = Done("init")
  /\ timers = {}
  /\ unloadListeners = {}
  /\ pageLoaded = TRUE
  /\ user = NoUser
  /\ isLoading = FALSE
  /\ error = NoError
  /\ pending = NoCall
  /\ message = ""
  /\ route = "/"
  /\ mount = [auth |-> "idle", prefs |-> "idle", session |-> session, row |-> row]

\* The stores as constructed, nobody signed in
InitWith(hasStored) == InitPage(hasStored, NoSession, NoRow)

Init == InitWith(TRUE)

InitAny == \E hasStored \in BOOLEAN : InitWith(hasStored)

(* ------------------------ patches store -------------------------------- *)
\* What every store call leaves alone; a store call ends the run of scans
\* that scanLog records.
StoreFrame ==
  /\ scanLog' = << >>
  /\ UNCHANGED <<now, preferences, notificationPermission, timerVars, authVars, mount>>

\* A call that throws before it writes anything
Rejected(op, err) ==
  /\ lastOp' = Op(op, err)
  /\ UNCHANGED <<patchTypes, inventory, applications, activeAt>>
  /\ StoreFrame

DecrementCountTwice(inv, i) == [inv EXCEPT ![i].count = @ - 2]

\* inventoryItem.count--
DecrementCount(inv, i) == [inv EXCEPT ![i].count = @ - 1]

NewApplication(patchTypeId, t) ==
  [id |-> ApplicationId(t), patchTypeId |-> patchTypeId, appliedAt |-> t,
   location |-> "Body", notes |-> ""]

NoStockOffByOne(inv, i) == i = 0 \/ inv[i].count < 0

\* if (!inventoryItem || inventoryItem.count <= 0) throw
NoStock(inv, i) == i = 0 \/ inv[i].count <= 0

applyPatch(patchTypeId) ==
  LET i == InventoryIndex(inventory, patchTypeId) IN
  IF NoStock(inventory, i)
  THEN Rejected("applyPatch", "No patches available in inventory")
  ELSE /\ inventory' = DecrementCount(inventory, i)
       /\ applications' = Append(applications, NewApplication(patchTypeId, now))
       /\ activeAt' = -1
       /\ lastOp' = Done("applyPatch")
       /\ UNCHANGED patchTypes
       /\ StoreFrame

ReturnToFirstEntry(inv, patchTypeId) == [inv EXCEPT ![1].count = @ + 1]

\* Return the patch to inventory: count++ on the entry found, or a new entry
ReturnToInventory(inv, patchTypeId) ==
  LET i == InventoryIndex(inv, patchTypeId) IN
  IF i # 0 THEN [inv EXCEPT ![i].count = @ + 1]
  ELSE Append(inv, [patchTypeId |-> patchTypeId, count |-> 1])

unapplyPatch(applicationId) ==
  LET i == ApplicationIndex(applications, applicationId) IN
  IF i = 0
  THEN Rejected("unapplyPatch", "Application record not found")
  ELSE /\ applications' = RemoveAt(applications, i)
       /\ inventory' = ReturnToInventory(inventory, applications[i].patchTypeId)
       /\ activeAt' = -1
       /\ lastOp' = Done("unapplyPatch")
       /\ UNCHANGED patchTypes
       /\ StoreFrame

AddCount(inv, patchTypeId, count) ==
  LET i == InventoryIndex(inv, patchTypeId) IN
  IF i # 0 THEN [inv EXCEPT ![i].count = @ + count]
  ELSE Append(inv, [patchTypeId |-> patchTypeId, count |-> count])

addToInventory(patchTypeId, count) ==
  /\ inventory' = AddCount(inventory, patchTypeId, count)
  /\ lastOp' = Done("addToInventory")
  /\ UNCHANGED <<patchTypes, applications, activeAt>>
  /\ StoreFrame

RemoveCountUnclamped(inv, patchTypeId, count) ==
  LET i == InventoryIndex(inv, patchTypeId) IN
  IF i # 0 THEN [inv EXCEPT ![i].count = @ - count]
  ELSE inv

\* inventoryItem.count = Math.max(0, inventoryItem.count - count)
RemoveCount(inv, patchTypeId, count) ==
  LET i == InventoryIndex(inv, patchTypeId) IN
  IF i # 0 THEN [inv EXCEPT ![i].count = Max(0, @ - count)]
  ELSE inv

removeFromInventory(patchTypeId, count) ==
  /\ inventory' = RemoveCount(inventory, patchTypeId, count)
  /\ lastOp' = Done("removeFromInventory")
  /\ UNCHANGED <<patchTypes, applications, activeAt>>
  /\ StoreFrame

\* A variant that gives the patch back to the inventory, as unapplyPatch does
removeAndRestock(applicationId) ==
  LET i == ApplicationIndex(applications, applicationId) IN
  /\ applications' = IF i # 0 THEN RemoveAt(applications, i) ELSE applications
  /\ inventory' = IF i # 0
                  THEN ReturnToInventory(inventory, applications[i].patchTypeId)
                  ELSE inventory
  /\ activeAt' = IF i # 0 THEN -1 ELSE activeAt
  /\ lastOp' = Done("removeApplication")
  /\ UNCHANGED patchTypes
  /\ StoreFrame

removeApplication(applicationId) ==
  LET i == ApplicationIndex(applications, applicationId) IN
  /\ applications' = IF i # 0 THEN RemoveAt(applications, i) ELSE applications
  /\ activeAt' = IF i # 0 THEN -1 ELSE activeAt
  /\ lastOp' = Done("removeApplication")
  /\ UNCHANGED <<patchTypes, inventory>>
  /\ StoreFrame

NewPatchType(t, name, durationHours) ==
  [id |-> CustomId(t), name |-> name, durationHours |-> durationHours,
   enabled |-> TRUE, isCustom |-> TRUE]

NumCustom == Cardinality({i \in 1..Len(patchTypes) : patchTypes[i].isCustom})

addCustomPatchType(name, durationHours) ==
  /\ patchTypes' = Append(patchTypes, NewPatchType(now, name, durationHours))
  /\ inventory' = Append(inventory, [patchTypeId |-> CustomId(now), count |-> 0])
  /\ activeAt' = -1
  /\ lastOp' = Done("addCustomPatchType")
  /\ UNCHANGED applications
  /\ StoreFrame

\* if (!patchType || !patchType.isCustom) throw
\* A variant that only asks whether the patch type exists
NotDeletableMissing(types, i) == i = 0

\* !patchType || !patchType.isCustom
NotDeletable(types, i) == i = 0 \/ ~types[i].isCustom

\* A variant that looks at the first application only
firstApplicationIsActive(apps, patchTypeId) ==
  Len(apps) > 0 /\ apps[1].patchTypeId = patchTypeId

\* applications.value.some(app => app.patchTypeId === patchTypeId)
hasActiveApplications(apps, patchTypeId) ==
  \E k \in 1..Len(apps) : apps[k].patchTypeId = patchTypeId

deleteCustomPatchType(patchTypeId) ==
  LET i == getPatchType(patchTypes, patchTypeId)
      KeepType(type) == type.id # patchTypeId
      KeepItem(item) == item.patchTypeId # patchTypeId
  IN
  IF NotDeletable(patchTypes, i)
  THEN Rejected("deleteCustomPatchType", "Only custom patch types can be deleted")
  ELSE IF hasActiveApplications(applications, patchTypeId)
  THEN Rejected("deleteCustomPatchType",
                "Cannot delete patch type with active applications")
  ELSE /\ patchTypes' = SelectSeq(patchTypes, KeepType)
       /\ inventory' = SelectSeq(inventory, KeepItem)
       /\ activeAt' = -1
       /\ lastOp' = Done("deleteCustomPatchType")
       /\ UNCHANGED applications
       /\ StoreFrame

\* Toggle patch type enabled status
togglePatchTypeEnabled(patchTypeId) ==
  LET i == getPatchType(patchTypes, patchTypeId) IN
  /\ patchTypes' = IF i # 0 THEN [patchTypes EXCEPT ![i].enabled = ~@]
                   ELSE patchTypes
  /\ lastOp' = Done("togglePatchTypeEnabled")
  /\ UNCHANGED <<inventory, applications, activeAt>>
  /\ StoreFrame

editPatchType(patchTypeId, name, durationHours) ==
  LET i == getPatchType(patchTypes, patchTypeId) IN
  IF i = 0
  THEN Rejected("editPatchType", "Patch type not found")
  ELSE /\ patchTypes' = [patchTypes EXCEPT ![i].name = name,
                                           ![i].durationHours = durationHours]
       /\ activeAt' = -1
       /\ lastOp' = Done("editPatchType")
       /\ UNCHANGED <<inventory, applications>>
       /\ StoreFrame

\* The edit form opens with the type's own name (startEditingPatchType)
EditNames(patchTypeId) ==
  LET i == getPatchType(patchTypes, patchTypeId) IN
  IF i # 0 THEN {patchTypes[i].name} ELSE {FormName}

(* ------------------------ derived state -------------------------------- *)
\* changeAt.setHours(changeAt.getHours() + durationHours): setHours takes the
\* integer part of its argument, and the minutes, seconds and milliseconds
\* of the date stay.
setHours(appliedAt, durationHours) ==
  appliedAt + (durationHours \div TicksPerHour) * TicksPerHour

\* A variant that lets the instant of change pass as not expired
IsExpiredStrict(timeRemaining) == timeRemaining < 0

\* const isExpired = timeRemaining <= 0
IsExpired(timeRemaining) == timeRemaining <= 0

\* One element of activePatches, computed when the clock reads t
ActivePatch(app, types, t) ==
  LET i == getPatchType(types, app.patchTypeId)
      durationHours == IF i # 0 THEN types[i].durationHours ELSE 0
      changeAt == setHours(app.appliedAt, durationHours)
      timeRemaining == changeAt - t
  IN [id |-> app.id, patchTypeId |-> app.patchTypeId, appliedAt |-> app.appliedAt,
      changeAt |-> changeAt, timeRemaining |-> timeRemaining,
      isExpired |-> IsExpired(timeRemaining)]

\* JavaScript's %: the remainder takes the sign of the dividend
JsRemainder(a, b) == IF a >= 0 THEN a % b ELSE 0 - ((0 - a) % b)

\* getDaysHoursFromNow, the clock reading t: totalHours is the difference in
\* hours, fractions included; days = Math.floor(totalHours / 24) and
\* hours = Math.floor(totalHours % 24)
getDaysHoursFromNow(targetDate, t) ==
  LET diff == targetDate - t
      day == 24 * TicksPerHour
  IN [days |-> diff \div day,
      hours |-> JsRemainder(diff, day) \div TicksPerHour]

\* getTimeLeft of the views: 'Expired' when days < 0 or hours < 0, the days
\* and hours otherwise; the target is appliedAt + durationHours * 60 * 60 * 1000
getTimeLeft(appliedAt, durationHours, t) ==
  LET left == getDaysHoursFromNow(appliedAt + durationHours, t) IN
  IF left.days < 0 \/ left.hours < 0
  THEN [label |-> "Expired", days |-> left.days, hours |-> left.hours]
  ELSE [label |-> "left", days |-> left.days, hours |-> left.hours]

\* A variant that puts x before the elements that change at the same time
InsertBeforeTies(x, s) ==
  LET k == Cardinality({j \in 1..Len(s) : s[j].changeAt < x.changeAt}) IN
  SubSeq(s, 1, k) \o <<x>> \o SubSeq(s, k + 1, Len(s))

\* x put behind every element of the sorted s that is not later than it
InsertByChangeAt(x, s) ==
  LET k == Cardinality({j \in 1..Len(s) : s[j].changeAt <= x.changeAt}) IN
  SubSeq(s, 1, k) \o <<x>> \o SubSeq(s, k + 1, Len(s))

\* .sort((a, b) => a.changeAt.getTime() - b.changeAt.getTime()): stable
RECURSIVE SortByChangeAt(_)
SortByChangeAt(s) ==
  IF s = << >> THEN << >>
  ELSE InsertByChangeAt(s[Len(s)], SortByChangeAt(SubSeq(s, 1, Len(s) - 1)))

\* The activePatches computed property, evaluated when the clock reads t
activePatches(apps, types, t) ==
  SortByChangeAt([k \in 1..Len(apps) |-> ActivePatch(apps[k], types, t)])

\* The comparator of the dashboard's sortedActivePatches: expired first,
\* then by the time remaining
CompareUrgency(a, b) ==
  IF a.isExpired /\ ~b.isExpired THEN -1
  ELSE IF ~a.isExpired /\ b.isExpired THEN 1
  ELSE a.timeRemaining - b.timeRemaining

InsertByUrgency(x, s) ==
  LET k == Cardinality({j \in 1..Len(s) : CompareUrgency(s[j], x) <= 0}) IN
  SubSeq(s, 1, k) \o <<x>> \o SubSeq(s, k + 1, Len(s))

\* [...patchesStore.activePatches].sort(...): stable
RECURSIVE sortedActivePatches(_)
sortedActivePatches(s) ==
  IF s = << >> THEN << >>
  ELSE InsertByUrgency(s[Len(s)], sortedActivePatches(SubSeq(s, 1, Len(s) - 1)))

LOW_THRESHOLD == 3

\* A variant with the threshold itself left out
IsLowCountBelow(count) == count < LOW_THRESHOLD

\* item.count <= LOW_THRESHOLD
IsLowCount(count) == count <= LOW_THRESHOLD

\* A variant that does not look at the enabled flag
IsAlertedWhateverEnabled(item, types) ==
  getPatchType(types, item.patchTypeId) # 0 /\ IsLowCount(item.count)

\* The filter of lowInventoryAlerts:
\* patchType?.enabled && item.count <= LOW_THRESHOLD
IsAlerted(item, types) ==
  LET i == getPatchType(types, item.patchTypeId) IN
  i # 0 /\ types[i].enabled /\ IsLowCount(item.count)

\* The lowInventoryAlerts computed property
lowInventoryAlerts(inv, types) ==
  LET Alerted(item) == IsAlerted(item, types)
      items == SelectSeq(inv, Alerted)
  IN [k \in 1..Len(items) |->
        [patchTypeId |-> items[k].patchTypeId, count |-> items[k].count,
         isOut |-> items[k].count = 0]]

\* The status the dashboard's inventory summary gives a count:
\* count <= 0 is 'out', count < 3 is 'low', anything else 'ok'
summaryStatus(count) ==
  IF count <= 0 THEN "out" ELSE IF count < 3 THEN "low" ELSE "ok"

\* The entries of the dashboard's inventorySummary, before they are sorted
\* for display: one per enabled patch type, with inventoryItem?.count || 0
inventorySummary(inv, types) ==
  LET Enabled(pt) == pt.enabled
      shown == SelectSeq(types, Enabled)
      CountOf(pt) == LET k == InventoryIndex(inv, pt.id) IN
                     IF k = 0 THEN 0 ELSE inv[k].count
  IN [k \in 1..Len(shown) |->
        [id |-> shown[k].id, inventory |-> CountOf(shown[k]),
         status |-> summaryStatus(CountOf(shown[k]))]]

\* The colour classes of the inventory table's "Inventory: n" label
tableColourClasses(count) ==
  (IF count <= 0 THEN {"text-red-600"} ELSE {})
    \cup (IF count > 0 /\ count < 3 THEN {"text-orange-600"} ELSE {})
    \cup (IF count >= 3 THEN {"text-green-600"} ELSE {})

\* patchType?.name in a notification's text
NameOf(types, patchTypeId) ==
  LET i == getPatchType(types, patchTypeId) IN
  IF i # 0 THEN types[i].name ELSE "undefined"

(* --------------------- notifications store ----------------------------- *)
Granted == notificationPermission = "granted"

\* One thing sent: a Notification of the browser or a (mock) email, with the
\* patch or the inventory entry the scan sent it for
Note(channel, title, tag, about, n) ==
  [channel |-> channel, title |-> title, tag |-> tag, patch |-> about.patch,
   patchTypeId |-> about.patchTypeId,
   name |-> NameOf(patchTypes, about.patchTypeId), n |-> n]

\* sendBrowserNotification: one Notification, or none
sendBrowserNotification(title, tag, about, n) ==
  IF ~preferences.enableBrowserNotifications \/ ~Granted
  THEN << >>
  ELSE << Note("browser", title, tag, about, n) >>

\* sendEmailNotification: the (mock) email, and a Notification without a
\* tag when the permission is granted
sendEmailNotification(subject, about, n) ==
  IF ~preferences.enableEmailNotifications \/ preferences.emailAddress = ""
  THEN << >>
  ELSE << Note("email", subject, "", about, n) >> \o
       (IF Granted
        THEN << Note("browser", "Email notification: " \o subject, "", about, n) >>
        ELSE << >>)

\* Math.ceil(timeUntilChange / (60 * 60 * 1000))
hoursUntilChange(timeUntilChange) ==
  (timeUntilChange + TicksPerHour - 1) \div TicksPerHour

\* preferences.value.notifyBeforeHours * 60 * 60 * 1000
notifyBeforeMs == preferences.notifyBeforeHours * TicksPerHour

\* A variant with the far end of the window left out
InWindowStrict(timeUntilChange) ==
  timeUntilChange > 0 /\ timeUntilChange < notifyBeforeMs

\* timeUntilChange > 0 && timeUntilChange <= notifyBeforeMs
InWindow(timeUntilChange) ==
  timeUntilChange > 0 /\ timeUntilChange <= notifyBeforeMs

\* The body of the first loop of checkForDueNotifications for one patch
RemindersFor(patch) ==
  LET timeUntilChange == patch.changeAt - now
      about == [patch |-> patch.id, patchTypeId |-> patch.patchTypeId]
      n == hoursUntilChange(timeUntilChange)
  IN
  IF patch.isExpired THEN << >>
  ELSE IF InWindow(timeUntilChange)
  THEN (IF preferences.enableBrowserNotifications /\ Granted
        THEN sendBrowserNotification("Time to change your patch soon",
                                     "patch-reminder-" \o patch.id, about, n)
        ELSE << >>) \o
       (IF preferences.enableEmailNotifications /\ preferences.emailAddress # ""
        THEN sendEmailNotification("Estrogen Patch Change Reminder", about, n)
        ELSE << >>)
  ELSE << >>

\* The body of the second loop for one alert
AlertsFor(alert) ==
  LET about == [patch |-> "", patchTypeId |-> alert.patchTypeId] IN
  IF alert.isOut
  THEN sendBrowserNotification("Out of patches!",
                               "inventory-out-" \o alert.patchTypeId, about, 0)
  ELSE IF preferences.enableBrowserNotifications /\ Granted
  THEN sendBrowserNotification("Low patch inventory",
                               "inventory-low-" \o alert.patchTypeId, about,
                               alert.count)
  ELSE << >>

RECURSIVE Flatten(_)
Flatten(ss) == IF ss = << >> THEN << >> ELSE Head(ss) \o Flatten(Tail(ss))

\* Reading the computed activePatches: computed afresh when a dependency
\* has changed since the last read, the cached value otherwise.
ReadActiveAt == IF activeAt = -1 THEN now ELSE activeAt

\* Everything one run of checkForDueNotifications sends, in order
ScanSends ==
  LET patches == activePatches(applications, patchTypes, ReadActiveAt)
      alerts == lowInventoryAlerts(inventory, patchTypes)
  IN Flatten([k \in 1..Len(patches) |-> RemindersFor(patches[k])]) \o
     Flatten([k \in 1..Len(alerts) |-> AlertsFor(alerts[k])])

\* What a run of checkForDueNotifications does, as the call op
Scan(op) ==
  /\ activeAt' = ReadActiveAt
  /\ scanLog' = Append(scanLog, ScanSends)
  /\ lastOp' = Done(op)
  /\ UNCHANGED <<patchTypes, inventory, applications, now, preferences,
                 notificationPermission, authVars>>

checkForDueNotifications ==
  /\ Scan("checkForDueNotifications")
  /\ UNCHANGED <<timerVars, mount>>

\* The id setInterval returns: a new one on every call
NewIntervalId == Cardinality(unloadListeners) + 1

\* A variant that registers the cleanup of the first interval only
AddFirstListenerOnly(listeners, intervalId) ==
  IF listeners = {} THEN {intervalId} ELSE listeners

\* window.addEventListener('beforeunload', () => clearInterval(intervalId))
AddUnloadListener(listeners, intervalId) == listeners \cup {intervalId}

\* scheduleNotificationCheck: the initial check, the interval, the cleanup
scheduleNotificationCheck(op) ==
  /\ Scan(op)
  /\ timers' = timers \cup {NewIntervalId}
  /\ unloadListeners' = AddUnloadListener(unloadListeners, NewIntervalId)
  /\ UNCHANGED pageLoaded

\* init of the notifications store, called whenever the dashboard is
\* mounted: notificationPermission.value = Notification.permission, then
\* scheduleNotificationCheck()
init ==
  /\ pageLoaded
  /\ scheduleNotificationCheck("notifications.init")
  /\ UNCHANGED mount

\* An interval that is running calls checkForDueNotifications
intervalFires(intervalId) ==
  /\ intervalId \in timers
  /\ checkForDueNotifications

\* The page is torn down: every beforeunload listener clears its interval
beforeunload ==
  /\ pageLoaded
  /\ pageLoaded' = FALSE
  /\ timers' = timers \ unloadListeners
  /\ lastOp' = Done("beforeunload")
  /\ UNCHANGED <<patchTypes, inventory, applications, now, activeAt, preferences,
                 notificationPermission, scanLog, unloadListeners, authVars, mount>>

\* preferences.value = { ...preferences.value, ...newPreferences }
updateNotificationPreferences(newPreferences) ==
  /\ preferences' = newPreferences
  /\ scanLog' = << >>
  /\ lastOp' = Done("updateNotificationPreferences")
  /\ UNCHANGED <<patchTypes, inventory, applications, now, activeAt,
                 notificationPermission,
                 timerVars, authVars, mount>>

\* What the settings form submits: the email address is validated when
\* email notifications are enabled, notifyBeforeHours is between 1 and 72.
NotifyHours == {1, 24}
FormPreferences ==
  {[enableBrowserNotifications |-> b, enableEmailNotifications |-> e,
    notifyBeforeHours |-> h,
    emailAddress |-> IF e THEN "user@example.com" ELSE ""] :
     b \in BOOLEAN, e \in BOOLEAN, h \in NotifyHours}

\* requestNotificationPermission, with the browser's (the user's) answer
requestNotificationPermission(answer) ==
  /\ notificationPermission' = IF Granted THEN "granted" ELSE answer
  /\ scanLog' = << >>
  /\ lastOp' = Done("requestNotificationPermission")
  /\ UNCHANGED <<patchTypes, inventory, applications, now, activeAt, preferences,
                 timerVars, authVars, mount>>

\* The clock moves on; nothing else does.
Tick ==
  /\ now' = now + 1
  /\ scanLog' = << >>
  /\ lastOp' = Done("tick")
  /\ UNCHANGED <<patchTypes, inventory, applications, activeAt, preferences,
                 notificationPermission,
                 timerVars, authVars, mount>>

(* ----------------------- auth store and forms --------------------------- *)
\* Everything but the auth store and the forms' view of it
nonAuthVars == <<patchTypes, inventory, applications, now, activeAt, preferences,
                 notificationPermission, scanLog, timers, unloadListeners,
                 pageLoaded, mount>>

LunaEmail == Email("luna", "example.com")

\* What the forms can hold when they are submitted
Emails == {NoEmail, LunaEmail}
Passwords == {"", "short", "password1"}
Usernames == {"", "luna"}

\* What the backend answers to signInWithPassword and signUp: a user, with
\* or without a username in its metadata and with or without an email, or
\* an error, with or without a message
BackendUsers ==
  {[ok |-> TRUE, id |-> "user-1", username |-> u, email |-> e, message |-> ""] :
     u \in Usernames, e \in Emails}
BackendErrors ==
  {[ok |-> FALSE, id |-> "", username |-> "", email |-> NoEmail, message |-> m] :
     m \in {"", "Invalid login credentials"}}
BackendResults == BackendUsers \cup BackendErrors

\* a || b on strings, and on email addresses
OrElse(a, b) == IF a # "" THEN a ELSE b
OrElseEmail(a, b) == IF a # NoEmail THEN a ELSE b

\* A form handler that stops at a validation: only the message is shown
Refused(op, text) ==
  /\ message' = text
  /\ lastOp' = Op(op, text)
  /\ UNCHANGED <<user, isLoading, error, pending, route>>
  /\ UNCHANGED nonAuthVars

\* The start of login and of register, up to the await
StartCall(call, username, email) ==
  /\ isLoading' = TRUE
  /\ error' = NoError
  /\ pending' = [call |-> call, username |-> username, email |-> email]

\* Whether login and register return normally: the catch block keeps
\* every error in error.value and throws nothing on
Returns(result) == TRUE

\* A variant in which a failed call signs the user out
EndCallClearingUser(result, newUser, fallback) ==
  /\ user' = IF result.ok THEN newUser ELSE NoUser
  /\ error' = IF result.ok THEN error ELSE OrElse(result.message, fallback)
  /\ isLoading' = FALSE
  /\ pending' = NoCall

\* The end of login and of register, from the await on: the user is set,
\* or the error is caught and kept in error.value; isLoading is reset in
\* either case.
EndCall(result, newUser, fallback) ==
  /\ user' = IF result.ok THEN newUser ELSE user
  /\ error' = IF result.ok THEN error ELSE OrElse(result.message, fallback)
  /\ isLoading' = FALSE
  /\ pending' = NoCall

\* What a form handler does after the awaited call: the try block goes on
\* when the call has returned, the catch block runs when it has thrown.
AfterCall(op, returned, success, failure) ==
  /\ message' = IF returned THEN success ELSE failure
  /\ route' = IF returned THEN "/dashboard" ELSE route
  /\ lastOp' = Done(op)
  /\ UNCHANGED nonAuthVars

\* handleLogin, up to the await of authStore.login
handleLogin(email, password) ==
  /\ route = "/login"
  /\ pending = NoCall
  /\ IF email = NoEmail \/ password = ""
     THEN Refused("handleLogin", "Please enter both email and password")
     ELSE /\ StartCall("login", "", email)
          /\ lastOp' = Done("handleLogin")
          /\ UNCHANGED <<user, message, route>>
          /\ UNCHANGED nonAuthVars

\* The backend answers: login ends and handleLogin goes on
loginCompletes(result) ==
  LET newUser == [id |-> result.id,
                  username |-> OrElse(result.username, pending.email.local),
                  email |-> OrElseEmail(result.email, pending.email)]
  IN /\ pending.call = "login"
     /\ EndCall(result, newUser, "Invalid email or password")
     /\ AfterCall("login", Returns(result), "Login successful!",
                  "Login failed. Please check your credentials.")

\* handleRegister, up to the await of authStore.register
handleRegister(username, email, password, confirmPassword) ==
  /\ route = "/register"
  /\ pending = NoCall
  /\ IF username = "" \/ email = NoEmail \/ password = ""
     THEN Refused("handleRegister", "Please fill out all required fields")
     ELSE IF password # confirmPassword
     THEN Refused("handleRegister", "Passwords do not match")
     ELSE IF Len(password) < 8
     THEN Refused("handleRegister", "Password must be at least 8 characters long")
     ELSE /\ StartCall("register", username, email)
          /\ lastOp' = Done("handleRegister")
          /\ UNCHANGED <<user, message, route>>
          /\ UNCHANGED nonAuthVars

\* The backend answers: register ends and handleRegister goes on
registerCompletes(result) ==
  LET newUser == [id |-> result.id, username |-> pending.username,
                  email |-> OrElseEmail(result.email, pending.email)]
  IN /\ pending.call = "register"
     /\ EndCall(result, newUser, "Registration failed")
     /\ AfterCall("register", Returns(result), "Registration successful!",
                  "Registration failed. Please try again.")

\* navigateToLogin and navigateToRegister of the views: router.push(path)
navigateTo(path) ==
  /\ pending = NoCall
  /\ route' = path
  /\ lastOp' = Done("navigateTo")
  /\ UNCHANGED <<user, isLoading, error, pending, message>>
  /\ UNCHANGED nonAuthVars

\* logout of the settings view: authStore.logout(), then the push and the
\* message; signOut may fail, and then the user stays
logout(signedOut) ==
  /\ pending = NoCall
  /\ user' = IF signedOut THEN NoUser ELSE user
  /\ route' = "/login"
  /\ message' = "You have been logged out"
  /\ lastOp' = Done("logout")
  /\ UNCHANGED <<isLoading, error, pending>>
  /\ UNCHANGED nonAuthVars

(* ------------- the dashboard's mount, with the backend's stores ---------- *)
\* An email address as text
EmailText(email) == IF email = NoEmail THEN "" ELSE email.local \o "@" \o email.domain

\* The user that auth.init makes of a session: the username of the
\* metadata, or the email's local part; the email, or ''
SessionUser(session) ==
  [id |-> session.id,
   username |-> OrElse(session.username, session.email.local),
   email |-> session.email]

\* if (!authStore.user) return
NobodySignedIn(signedIn) == signedIn = NoUser

\* The preferences loadPreferences makes of the row the query returned; no
\* row is an error of .single(), and an error falls back to the defaults (so
\* does reading authStore.user.email when the user has gone meanwhile)
RowPreferences(row, signedIn) ==
  IF row.found /\ (row.email_address # "" \/ signedIn # NoUser)
  THEN [enableBrowserNotifications |-> row.enable_browser_notifications,
        enableEmailNotifications |-> row.enable_email_notifications,
        notifyBeforeHours |-> row.notify_before_hours,
        emailAddress |-> OrElse(row.email_address, EmailText(signedIn.email))]
  ELSE DefaultPreferences

\* onMounted of the dashboard: authStore.init() runs up to its await of
\* getSession, then notificationsStore.init() runs up to its await of
\* loadPreferences, which has returned at once if nobody is signed in and
\* awaits its query otherwise.  (The permission request that follows is
\* answered later, by requestNotificationPermission.)
onMounted ==
  /\ pageLoaded
  /\ mount' = [mount EXCEPT !.auth = "getSession",
                            !.prefs = IF NobodySignedIn(user) THEN "loaded" ELSE "select"]
  /\ scanLog' = << >>
  /\ lastOp' = Done("onMounted")
  /\ UNCHANGED <<patchTypes, inventory, applications, now, activeAt, preferences,
                 notificationPermission, timerVars, authVars>>

\* getSession answers and auth.init goes on: the user is set if there is a
\* session
getSessionReturns ==
  /\ mount.auth = "getSession"
  /\ user' = IF mount.session.ok THEN SessionUser(mount.session) ELSE user
  /\ mount' = [mount EXCEPT !.auth = "done"]
  /\ scanLog' = << >>
  /\ lastOp' = Done("auth.init")
  /\ UNCHANGED <<patchTypes, inventory, applications, now, activeAt, preferences,
                 notificationPermission, timerVars, isLoading, error, pending,
                 message, route>>

\* The query of loadPreferences answers and loadPreferences goes on to its
\* end
loadPreferencesReturns ==
  /\ mount.prefs = "select"
  /\ preferences' = RowPreferences(mount.row, user)
  /\ mount' = [mount EXCEPT !.prefs = "loaded"]
  /\ scanLog' = << >>
  /\ lastOp' = Done("loadPreferences")
  /\ UNCHANGED <<patchTypes, inventory, applications, now, activeAt,
                 notificationPermission, timerVars, authVars>>

\* notificationsStore.init goes on after its await of loadPreferences:
\* scheduleNotificationCheck()
initContinues ==
  /\ mount.prefs = "loaded"
  /\ mount' = [mount EXCEPT !.prefs = "done"]
  /\ scheduleNotificationCheck("notifications.init")

\* The id is one that addCustomPatchType has made
IsCustomId(patchTypeId) ==
  LET i == getPatchType(patchTypes, patchTypeId) IN
  i # 0 /\ patchTypes[i].isCustom

\* The bounds of the exploration: how many application records and custom
\* types are created, how far stock is raised.
RoomToApply == Len(applications) < MaxApps
RoomToAdd(patchTypeId, count) ==
  LET i == InventoryIndex(inventory, patchTypeId) IN
  i # 0 => inventory[i].count + count <= MaxStock
RoomForCustom == NumCustom < MaxCustom

\* Applications and stock of the listed patch types
NextApps ==
  \/ \E p \in PatchTypeArgs : RoomToApply /\ applyPatch(p)
  \/ \E a \in ApplicationArgs : unapplyPatch(a)
  \/ \E p \in KnownPatchTypeIds, n \in AddCounts :
       RoomToAdd(p, n) /\ addToInventory(p, n)
  \/ \E p \in PatchTypeArgs : \E n \in RemoveCounts(p) : removeFromInventory(p, n)
  \/ \E a \in ApplicationArgs : removeApplication(a)
  \/ now < MaxTime /\ Tick

SpecApps == InitAny /\ [][NextApps]_vars

\* The same with custom patch types added and deleted
Next ==
  \/ \E p \in PatchTypeArgs : RoomToApply /\ applyPatch(p)
  \/ \E a \in ApplicationArgs : unapplyPatch(a)
  \/ \E p \in KnownPatchTypeIds, n \in AddCounts :
       RoomToAdd(p, n) /\ addToInventory(p, n)
  \/ \E p \in PatchTypeArgs : \E n \in RemoveCounts(p) : removeFromInventory(p, n)
  \/ \E a \in ApplicationArgs : removeApplication(a)
  \/ RoomForCustom /\ addCustomPatchType(FormName, FormDuration)
  \/ \E p \in PatchTypeArgs : deleteCustomPatchType(p)
  \/ now < MaxTime /\ Tick

Spec == Init /\ [][Next]_vars

\* Custom patch types added, stocked, applied and deleted
NextCustom ==
  \/ \E p \in PatchTypeArgs : RoomToApply /\ applyPatch(p)
  \/ \E a \in ApplicationArgs : unapplyPatch(a)
  \/ \E p \in KnownPatchTypeIds, n \in AddCounts :
       IsCustomId(p) /\ RoomToAdd(p, n) /\ addToInventory(p, n)
  \/ \E a \in ApplicationArgs : removeApplication(a)
  \/ RoomForCustom /\ addCustomPatchType(FormName, FormDuration)
  \/ \E p \in PatchTypeArgs : deleteCustomPatchType(p)

SpecCustom == Init /\ [][NextCustom]_vars

\* Reminders: patches applied, durations edited, the clock, the preferences
\* and the permission, and the scan
NextReminders ==
  \/ \E p \in KnownPatchTypeIds : Len(applications) < MaxScanApps /\ applyPatch(p)
  \/ \E p \in PatchTypeArgs : \E n \in EditNames(p), d \in Durations :
       editPatchType(p, n, d)
  \/ \E np \in FormPreferences : updateNotificationPreferences(np)
  \/ \E answer \in {"granted", "denied"} : requestNotificationPermission(answer)
  \/ Len(scanLog) < MaxScans /\ checkForDueNotifications
  \/ now < MaxScanTime /\ Tick

SpecReminders == Init /\ [][NextReminders]_vars

\* Low-inventory alerts: stock, the enabled flags, the preferences and the
\* permission, and the scan
NextAlerts ==
  \/ \E p \in KnownPatchTypeIds, n \in AddCounts :
       RoomToAdd(p, n) /\ addToInventory(p, n)
  \/ \E p \in PatchTypeArgs : \E n \in RemoveCounts(p) : removeFromInventory(p, n)
  \/ \E p \in PatchTypeArgs : togglePatchTypeEnabled(p)
  \/ \E np \in FormPreferences : updateNotificationPreferences(np)
  \/ \E answer \in {"granted", "denied"} : requestNotificationPermission(answer)
  \/ Len(scanLog) < MaxScans /\ checkForDueNotifications

SpecAlerts == Init /\ [][NextAlerts]_vars

\* Durations of whole hours and of an hour and a fraction
OrderDurations == {TicksPerHour + 1, 2 * TicksPerHour}

\* The order of the active patches: patches applied at different times, of
\* patch types whose durations are edited
NextOrder ==
  \/ \E p \in KnownPatchTypeIds : Len(applications) < MaxOrderApps /\ applyPatch(p)
  \/ \E p \in PatchTypeArgs : \E n \in EditNames(p), d \in OrderDurations :
       editPatchType(p, n, d)
  \/ \E a \in ApplicationArgs : removeApplication(a)
  \/ now < MaxOrderTime /\ Tick

SpecOrder == Init /\ [][NextOrder]_vars

\* Durations of one hour and of an hour and a fraction, short enough for
\* the clock to reach the instant of change
TimeLeftDurations == {TicksPerHour, TicksPerHour + 1}

\* The time left on patches whose types are edited, as the clock advances
NextTimeLeft ==
  \/ \E p \in KnownPatchTypeIds : RoomToApply /\ applyPatch(p)
  \/ \E p \in PatchTypeArgs : \E n \in EditNames(p), d \in TimeLeftDurations :
       editPatchType(p, n, d)
  \/ \E a \in ApplicationArgs : unapplyPatch(a)
  \/ now < MaxOrderTime /\ Tick

SpecTimeLeft == Init /\ [][NextTimeLeft]_vars

\* Custom patch types added more than once at one reading of the clock,
\* stocked, applied and deleted
NextTwins ==
  \/ NumCustom < MaxTwins /\ addCustomPatchType(FormName, FormDuration)
  \/ \E p \in PatchTypeArgs : deleteCustomPatchType(p)
  \/ \E p \in KnownPatchTypeIds, n \in AddCounts :
       IsCustomId(p) /\ RoomToAdd(p, n) /\ addToInventory(p, n)
  \/ \E p \in KnownPatchTypeIds : IsCustomId(p) /\ RoomToApply /\ applyPatch(p)
  \/ \E a \in ApplicationArgs : unapplyPatch(a)
  \/ now < MaxTime /\ Tick

SpecTwins == Init /\ [][NextTwins]_vars

\* The sessions and the preferences rows the backend may hold at page load
Sessions ==
  {NoSession,
   [ok |-> TRUE, id |-> "user-1", username |-> "", email |-> LunaEmail, message |-> ""]}
StoredRows ==
  {NoRow} \cup
  {[found |-> TRUE, enable_browser_notifications |-> b,
    enable_email_notifications |-> FALSE, notify_before_hours |-> h,
    email_address |-> ""] : b \in BOOLEAN, h \in NotifyHours}

InitMount == \E session \in Sessions, row \in StoredRows : InitPage(TRUE, session, row)

\* The dashboard mounted, and mounted again once the calls of the mount
\* before have returned, while patches are applied and the clock advances;
\* what follows an await that has returned runs before anything else does
NextMount ==
  \/ /\ Cardinality(unloadListeners) < MaxInits
     /\ mount.auth # "getSession" /\ mount.prefs \in {"idle", "done"}
     /\ onMounted
  \/ mount.prefs # "loaded" /\ getSessionReturns
  \/ loadPreferencesReturns
  \/ initContinues
  \/ \E p \in KnownPatchTypeIds :
       mount.prefs # "loaded" /\ Len(applications) < MaxScanApps /\ applyPatch(p)
  \/ \E p \in PatchTypeArgs : \E n \in EditNames(p), d \in OrderDurations :
       mount.prefs # "loaded" /\ editPatchType(p, n, d)
  \/ \E answer \in {"granted", "denied"} :
       mount.prefs # "loaded" /\ requestNotificationPermission(answer)
  \/ mount.prefs # "loaded" /\ now < MaxScanTime /\ Tick

SpecMount == InitMount /\ [][NextMount]_vars

\* The scan's timers: the dashboard mounted again and again, the intervals
\* firing, the page torn down, while the clock, the permission and the
\* preferences change
NextTimers ==
  \/ Cardinality(unloadListeners) < MaxInits /\ Len(scanLog) < MaxScans /\ init
  \/ \E id \in 1..MaxInits : Len(scanLog) < MaxScans /\ intervalFires(id)
  \/ beforeunload
  \/ pageLoaded /\ \E answer \in {"granted", "denied"} :
       requestNotificationPermission(answer)
  \/ pageLoaded /\ \E np \in FormPreferences : updateNotificationPreferences(np)
  \/ now < MaxTime /\ Tick

SpecTimers == Init /\ [][NextTimers]_vars

\* Signing in, registering and signing out
NextAuth ==
  \/ \E e \in Emails, pw \in Passwords : handleLogin(e, pw)
  \/ \E result \in BackendResults : loginCompletes(result)
  \/ \E u \in Usernames, e \in Emails, pw \in Passwords, cpw \in Passwords :
       handleRegister(u, e, pw, cpw)
  \/ \E result \in BackendResults : registerCompletes(result)
  \/ \E signedOut \in BOOLEAN : logout(signedOut)
  \/ \E path \in {"/login", "/register"} : navigateTo(path)

SpecAuth == Init /\ [][NextAuth]_vars

(* ------------------------------ claims --------------------------------- *)
\* The first entry of a patch type in an inventory, and its count
HasStock(inv, patchTypeId) ==
  InventoryIndex(inv, patchTypeId) # 0 /\ inv[InventoryIndex(inv, patchTypeId)].count >= 1

\* inv2 is inv with the count at index i changed by delta and nothing else
OnlyCountChanged(inv, inv2, i, delta) ==
  /\ Len(inv2) = Len(inv)
  /\ \A k \in 1..Len(inv) :
       /\ inv2[k].patchTypeId = inv[k].patchTypeId
       /\ inv2[k].count = inv[k].count + (IF k = i THEN delta ELSE 0)

\* C1: applyPatch(patchTypeId), called when the inventory entry of
\* patchTypeId has count >= 1, is accepted, decrements that entry's count by
\* exactly 1, appends exactly one new application record that references
\* patchTypeId, and leaves every other inventory entry and every existing
\* application record unchanged.
C1_ApplyDecrementsAndAppends ==
  [][\A p \in PatchTypeArgs :
       (applyPatch(p) /\ HasStock(inventory, p)) =>
         /\ lastOp' = Done("applyPatch")
         /\ OnlyCountChanged(inventory, inventory', InventoryIndex(inventory, p), -1)
         /\ Len(applications') = Len(applications) + 1
         /\ SubSeq(applications', 1, Len(applications)) = applications
         /\ applications'[Len(applications')].patchTypeId = p]_vars

\* C1 witness: an accepted applyPatch beside an existing record and another
\* inventory entry
C1_Witness ==
  /\ lastOp = Done("applyPatch")
  /\ Len(applications) >= 2
  /\ Len(inventory) >= 2
\* C2: applyPatch for a patch type whose inventory entry is missing or has
\* count <= 0 is rejected with 'No patches available in inventory' and
\* leaves the inventory and the applications exactly as they were.
C2_ApplyRejectedWithoutStock ==
  [][\A p \in PatchTypeArgs :
       (applyPatch(p) /\ ~HasStock(inventory, p)) =>
         /\ lastOp' = Op("applyPatch", "No patches available in inventory")
         /\ inventory' = inventory
         /\ applications' = applications]_vars

\* C2 witness: a rejected applyPatch with an entry at count 0 and a record
\* in the list
C2_Witness ==
  /\ lastOp = Op("applyPatch", "No patches available in inventory")
  /\ \E k \in 1..Len(inventory) : inventory[k].count = 0
  /\ Len(applications) >= 1

\* C3: unapplyPatch(applicationId) for an existing application deletes
\* exactly that record (the first with that id) and increases the inventory
\* count of the record's patch type by exactly 1 (a new entry with count 1
\* if there is none), and changes no other application or inventory entry.
C3_UnapplyRestoresOne ==
  [][\A a \in ApplicationArgs :
       (unapplyPatch(a) /\ ApplicationIndex(applications, a) # 0) =>
         LET i == ApplicationIndex(applications, a)
             p == applications[i].patchTypeId
             e == InventoryIndex(inventory, p)
         IN
         /\ lastOp' = Done("unapplyPatch")
         /\ Len(applications') = Len(applications) - 1
         /\ \A k \in 1..Len(applications') :
              applications'[k] = applications[IF k < i THEN k ELSE k + 1]
         /\ IF e # 0
            THEN OnlyCountChanged(inventory, inventory', e, 1)
            ELSE inventory' = Append(inventory, [patchTypeId |-> p, count |-> 1])]_vars

\* C3 witness: an accepted unapplyPatch that left another record in place
\* and brought an entry back from 0
C3_Witness ==
  /\ lastOp = Done("unapplyPatch")
  /\ Len(applications) >= 1
  /\ \E k \in 1..Len(inventory) : inventory[k].count = 1

\* C4: in every state reachable by applyPatch, unapplyPatch, addToInventory,
\* removeFromInventory, removeApplication, addCustomPatchType and
\* deleteCustomPatchType, every inventory entry's count is an integer >= 0.
C4_CountsNeverNegative ==
  \A k \in 1..Len(inventory) : inventory[k].count \in Nat

\* C4 witness: removeFromInventory has acted on an entry that is at 0, with
\* a custom type's entry in the inventory
C4_Witness ==
  /\ lastOp = Done("removeFromInventory")
  /\ \E k \in 1..Len(inventory) : inventory[k].count = 0
  /\ NumCustom >= 1

\* The active patches as a read at the present time computes them
PatchesNow == activePatches(applications, patchTypes, now)

\* C5 (as stated; the code does otherwise): every active patch has changeAt
\* equal to appliedAt plus the whole duration of its patch type, fractions of
\* an hour included, and timeRemaining equal to changeAt minus now.
C5_ChangeAtIsAppliedAtPlusDuration ==
  \A k \in 1..Len(PatchesNow) :
    LET patch == PatchesNow[k]
        i == getPatchType(patchTypes, patch.patchTypeId)
    IN i # 0 =>
         /\ patch.changeAt = patch.appliedAt + patchTypes[i].durationHours
         /\ patch.timeRemaining = patch.changeAt - now

\* C6: whenever the active patches are computed, a patch is expired if and
\* only if the time of the computation has reached its changeAt; a 48 hour
\* patch applied at T has 1 hour left and is not expired at T + 47 h, and is
\* expired at T + 48 h and at T + 49 h.
C6_ExpiredIffChangeAtReached ==
  /\ \A t \in 0..now :
       LET patches == activePatches(applications, patchTypes, t) IN
       \A k \in 1..Len(patches) :
         patches[k].isExpired <=> t >= patches[k].changeAt
  /\ LET app == [id |-> ApplicationId(0), patchTypeId |-> "estradiol-2day", appliedAt |-> 0]
         At(h) == ActivePatch(app, DefaultPatchTypes, h * TicksPerHour)
     IN /\ At(47).timeRemaining = 1 * TicksPerHour /\ ~At(47).isExpired
        /\ At(48).isExpired
        /\ At(49).isExpired

\* A patch whose changeAt is the present instant, just computed by a scan
C6_Witness ==
  /\ lastOp = Done("checkForDueNotifications")
  /\ activeAt = now
  /\ \E k \in 1..Len(PatchesNow) :
       PatchesNow[k].changeAt = now /\ PatchesNow[k].isExpired

\* A channel through which a reminder can leave
ChannelActive ==
  \/ preferences.enableBrowserNotifications /\ Granted
  \/ preferences.enableEmailNotifications /\ preferences.emailAddress # ""

\* The scan whose sends are sent fired a reminder for the patch
ReminderFired(sent, patch) ==
  \E j \in 1..Len(sent) :
    sent[j].patch = patch.id /\ sent[j].patchTypeId = patch.patchTypeId

\* 0 < timeRemaining <= notifyBeforeHours hours
Due(patch) ==
  /\ 0 < patch.timeRemaining
  /\ patch.timeRemaining <= preferences.notifyBeforeHours * TicksPerHour

\* C7 (as stated): a scan fires a reminder for an active patch if and only
\* if 0 < timeRemaining <= notifyBeforeHours hours.
C7_Original_ReminderIffDue ==
  \A s \in 1..Len(scanLog) : \A k \in 1..Len(PatchesNow) :
    ReminderFired(scanLog[s], PatchesNow[k]) <=> Due(PatchesNow[k])

\* C7 (amended): a scan fires a reminder for an active patch if and only if
\* a channel is active (browser notifications enabled and permitted, or
\* email notifications enabled with an address) and
\* 0 < timeRemaining <= notifyBeforeHours hours; no reminder is fired for an
\* expired patch.
C7_ReminderIffDueAndChannelActive ==
  \A s \in 1..Len(scanLog) : \A k \in 1..Len(PatchesNow) :
    /\ ReminderFired(scanLog[s], PatchesNow[k]) <=>
         (ChannelActive /\ Due(PatchesNow[k]))
    /\ now >= PatchesNow[k].changeAt => ~ReminderFired(scanLog[s], PatchesNow[k])

\* A scan has fired a reminder for a patch at the far end of the window
C7_Witness ==
  /\ lastOp = Done("checkForDueNotifications")
  /\ \E k \in 1..Len(PatchesNow) :
       /\ ReminderFired(scanLog[Len(scanLog)], PatchesNow[k])
       /\ PatchesNow[k].timeRemaining = preferences.notifyBeforeHours * TicksPerHour

\* C8 (as stated; the code does otherwise): of two scans with nothing
\* changing between them, the later one sends nothing the earlier one has
\* sent: no notification with the same tag, no identical reminder.
C8_NoRepeatedAlert ==
  \A s1, s2 \in 1..Len(scanLog) :
    s1 < s2 =>
      \A j1 \in 1..Len(scanLog[s1]), j2 \in 1..Len(scanLog[s2]) :
        /\ scanLog[s1][j1] # scanLog[s2][j2]
        /\ scanLog[s1][j1].tag # "" => scanLog[s1][j1].tag # scanLog[s2][j2].tag

\* The alerts as a read computes them
AlertsNow == lowInventoryAlerts(inventory, patchTypes)

\* The indices of the alerts raised for an inventory entry
AlertsOf(item) ==
  {j \in 1..Len(AlertsNow) : /\ AlertsNow[j].patchTypeId = item.patchTypeId
                            /\ AlertsNow[j].count = item.count}

\* The inventory entry belongs to an enabled patch type
OfEnabledType(item) ==
  LET i == getPatchType(patchTypes, item.patchTypeId) IN
  i # 0 /\ patchTypes[i].enabled

\* The notifications of the scans about inventory
StockNotes ==
  UNION {{scanLog[s][j] : j \in {j \in 1..Len(scanLog[s]) : scanLog[s][j].patch = ""}} :
           s \in 1..Len(scanLog)}

\* C9: with the threshold 3, an inventory entry of an enabled patch type is
\* alerted as out if and only if its count is 0 and as low (alerted, not
\* out) if and only if 0 < count <= 3, never as both; an entry with a count
\* above 3 has no alert; the notifications say the same.
C9_OutAndLowClassification ==
  /\ LOW_THRESHOLD = 3
  /\ \A k \in 1..Len(inventory) :
       LET item == inventory[k]
           isOut == \E j \in AlertsOf(item) : AlertsNow[j].isOut
           isLow == \E j \in AlertsOf(item) : ~AlertsNow[j].isOut
       IN /\ OfEnabledType(item) =>
               /\ isOut <=> item.count = 0
               /\ isLow <=> (0 < item.count /\ item.count <= 3)
          /\ ~(isOut /\ isLow)
          /\ item.count > 3 => AlertsOf(item) = {}
  /\ \A note \in StockNotes :
       /\ note.title = "Out of patches!" <=> note.n = 0
       /\ note.title = "Low patch inventory" <=> (0 < note.n /\ note.n <= 3)

\* A scan has sent an out notification, and a low one for a count of 3
C9_Witness ==
  /\ lastOp = Done("checkForDueNotifications")
  /\ \E note \in StockNotes : note.n = 0
  /\ \E note \in StockNotes : note.n = 3

\* C10: every alert of lowInventoryAlerts is for a patch type that exists
\* and is enabled; for a disabled patch type there is no alert and no scan
\* sends a low or out notification, whatever its count.
C10_NoAlertForDisabledType ==
  /\ \A j \in 1..Len(AlertsNow) :
       LET i == getPatchType(patchTypes, AlertsNow[j].patchTypeId) IN
       i # 0 /\ patchTypes[i].enabled
  /\ \A i \in 1..Len(patchTypes) :
       ~patchTypes[i].enabled =>
         /\ \A j \in 1..Len(AlertsNow) : AlertsNow[j].patchTypeId # patchTypes[i].id
         /\ \A note \in StockNotes : note.patchTypeId # patchTypes[i].id

\* A scan has sent an alert while a disabled type is out of stock
C10_Witness ==
  /\ lastOp = Done("checkForDueNotifications")
  /\ StockNotes # {}
  /\ \E i \in 1..Len(patchTypes) :
       /\ ~patchTypes[i].enabled
       /\ \E k \in 1..Len(inventory) :
            inventory[k].patchTypeId = patchTypes[i].id /\ inventory[k].count = 0

\* The applications mapped to active patches, before the sort
MappedNow ==
  [k \in 1..Len(applications) |-> ActivePatch(applications[k], patchTypes, now)]

\* The elements of s that change at c, in the order they have in s
ChangingAt(s, c) ==
  LET Test(x) == x.changeAt = c IN SelectSeq(s, Test)

\* C11: activePatches is in ascending order of changeAt, the patches that
\* change at the same time are in the order their applications have in the
\* store, and the dashboard's sort by urgency keeps that order.
C11_SortedByChangeAtStable ==
  /\ Len(PatchesNow) = Len(applications)
  /\ \A k \in 1..(Len(PatchesNow) - 1) :
       PatchesNow[k].changeAt <= PatchesNow[k + 1].changeAt
  /\ \A c \in {MappedNow[k].changeAt : k \in 1..Len(MappedNow)} :
       ChangingAt(PatchesNow, c) = ChangingAt(MappedNow, c)
  /\ sortedActivePatches(PatchesNow) = PatchesNow

\* Three patches, out of their order of application, two of different
\* types changing at the same time
C11_Witness ==
  /\ Len(PatchesNow) = 3
  /\ PatchesNow # MappedNow
  /\ \E k \in 1..2 :
       /\ PatchesNow[k].changeAt = PatchesNow[k + 1].changeAt
       /\ PatchesNow[k].patchTypeId # PatchesNow[k + 1].patchTypeId

\* A custom patch type has the id
IsCustomType(patchTypeId) ==
  \E i \in 1..Len(patchTypes) :
    patchTypes[i].id = patchTypeId /\ patchTypes[i].isCustom

\* C12: deleteCustomPatchType of an id that no patch type has, or that a
\* patch type that is not custom has, is rejected with an error and leaves
\* patch types, inventory and applications as they are; no step of any
\* operation removes a patch type that is not custom.
C12_DeleteRejectedUnlessCustom ==
  [][/\ \A p \in PatchTypeArgs :
          (deleteCustomPatchType(p) /\ ~IsCustomType(p)) =>
            /\ lastOp' = Op("deleteCustomPatchType",
                            "Only custom patch types can be deleted")
            /\ patchTypes' = patchTypes
            /\ inventory' = inventory
            /\ applications' = applications
      /\ \A i \in 1..Len(patchTypes) :
          ~patchTypes[i].isCustom =>
            \E j \in 1..Len(patchTypes') : patchTypes'[j] = patchTypes[i]]_vars

\* A deletion has been rejected while a custom patch type exists
C12_Witness ==
  /\ lastOp = Op("deleteCustomPatchType", "Only custom patch types can be deleted")
  /\ NumCustom >= 1
  /\ Len(applications) >= 1

\* The names and durations of the patch types, in order
NamesAndDurations(types) ==
  [i \in 1..Len(types) |-> <<types[i].id, types[i].name, types[i].durationHours>>]

\* C13 (as stated; the code does otherwise): editPatchType of an id that no
\* patch type has, or that a patch type that is not custom has, is rejected
\* and leaves every name and every duration as it is.
C13_EditRejectedUnlessCustom ==
  [][\A p \in PatchTypeArgs : \A n \in EditNames(p), d \in OrderDurations :
       (editPatchType(p, n, d) /\ ~IsCustomType(p)) =>
         /\ lastOp'.op = "editPatchType" /\ lastOp'.error # ""
         /\ NamesAndDurations(patchTypes') = NamesAndDurations(patchTypes)]_vars

\* C14: deleteCustomPatchType of a custom patch type that an application
\* record refers to is rejected, and the patch type and its inventory entry
\* stay.
C14_DeleteRejectedWhileReferenced ==
  [][\A p \in PatchTypeArgs :
       (/\ deleteCustomPatchType(p)
        /\ IsCustomType(p)
        /\ \E k \in 1..Len(applications) : applications[k].patchTypeId = p) =>
         /\ lastOp' = Op("deleteCustomPatchType",
                         "Cannot delete patch type with active applications")
         /\ patchTypes' = patchTypes
         /\ inventory' = inventory
         /\ IsCustomType(p)'
         /\ InventoryIndex(inventory', p) # 0]_vars

\* The deletion of a custom type was rejected for its application, which
\* is not the first one
C14_Witness ==
  /\ lastOp = Op("deleteCustomPatchType",
                 "Cannot delete patch type with active applications")
  /\ Len(applications) >= 2
  /\ ~IsCustomType(applications[1].patchTypeId)

\* apps2 is apps with the element at one index taken out
OneRemoved(apps, apps2) ==
  /\ Len(apps2) = Len(apps) - 1
  /\ \E i \in 1..Len(apps) :
       \A k \in 1..Len(apps2) : apps2[k] = apps[IF k < i THEN k ELSE k + 1]

\* C15: removeApplication leaves the inventory and the patch types as they
\* are; when a record has the id it takes out one record, which has that id,
\* and when none has it the applications stay as they are.
C15_RemoveApplicationOnlyDeletesRecord ==
  [][\A a \in ApplicationArgs :
       removeApplication(a) =>
         /\ inventory' = inventory
         /\ patchTypes' = patchTypes
         /\ lastOp' = Done("removeApplication")
         /\ IF \E k \in 1..Len(applications) : applications[k].id = a
            THEN /\ OneRemoved(applications, applications')
                 /\ Cardinality({k \in 1..Len(applications') : applications'[k].id = a})
                      = Cardinality({k \in 1..Len(applications) : applications[k].id = a}) - 1
            ELSE applications' = applications]_vars

\* A record has been removed while a stock was at 0 and another record stays
C15_Witness ==
  /\ lastOp = Done("removeApplication")
  /\ Len(applications) = 1
  /\ \E k \in 1..Len(inventory) : inventory[k].count = 0
  /\ activeAt = -1

\* C16: every step of the store leaves the application records as they
\* are, or appends one record (applyPatch), or takes one record out
\* (removeApplication, unapplyPatch): no record's id, patchTypeId, appliedAt,
\* location or notes changes.
C16_RecordsImmutable ==
  [][\/ applications' = applications
     \/ /\ lastOp' = Done("applyPatch")
        /\ Len(applications') = Len(applications) + 1
        /\ SubSeq(applications', 1, Len(applications)) = applications
     \/ /\ lastOp' \in {Done("removeApplication"), Done("unapplyPatch")}
        /\ OneRemoved(applications, applications')]_vars

\* A record applied earlier is still there after another was unapplied and
\* a custom type was added
C16_Witness ==
  /\ lastOp = Done("unapplyPatch")
  /\ Len(applications) >= 1
  /\ applications[1].appliedAt < now
  /\ NumCustom >= 1

\* C17 (as stated; the code does otherwise): at most one interval that runs
\* the scan is active at any time.
C17_AtMostOneTimer == Cardinality(timers) <= 1

\* A scan can still run: init can be called or an interval can fire
ScanCanRun == ENABLED (init \/ \E id \in timers : intervalFires(id))

\* C18: once the page has been torn down, every interval that
\* scheduleNotificationCheck started has been cleared and no scan can run.
C18_NoTimerAfterTeardown ==
  ~pageLoaded => (timers = {} /\ ~ScanCanRun)

\* The page was torn down after init had been called twice
C18_Witness ==
  /\ ~pageLoaded
  /\ Cardinality(unloadListeners) = 2
  /\ lastOp = Done("beforeunload")

\* Everything the scans have sent
AllNotes ==
  UNION {{scanLog[s][j] : j \in 1..Len(scanLog[s])} : s \in 1..Len(scanLog)}

C20_NoSuccessAfterFailedAuth ==
  [][\A result \in BackendResults :
       (loginCompletes(result) \/ registerCompletes(result)) =>
         /\ ~result.ok =>
              /\ message' \notin {"Login successful!", "Registration successful!"}
              /\ route' # "/dashboard"
         /\ (message' \in {"Login successful!", "Registration successful!"}
              \/ route' = "/dashboard") => user' # NoUser]_vars

NoRecordWithId(applicationId) ==
  \A i \in 1..Len(applications) : applications[i].id # applicationId

StoreSaysLow(patchTypeId) ==
  \E j \in 1..Len(AlertsNow) :
    AlertsNow[j].patchTypeId = patchTypeId /\ ~AlertsNow[j].isOut

StoreSaysOut(patchTypeId) ==
  \E j \in 1..Len(AlertsNow) :
    AlertsNow[j].patchTypeId = patchTypeId /\ AlertsNow[j].isOut

SummaryNow == inventorySummary(inventory, patchTypes)

C23_Original_ViewsAgreeWithStore ==
  \A k \in 1..Len(SummaryNow) :
    LET item == SummaryNow[k]
        classes == tableColourClasses(item.inventory)
    IN /\ (item.status = "low") <=> StoreSaysLow(item.id)
       /\ (item.status = "out") <=> StoreSaysOut(item.id)
       /\ ("text-orange-600" \in classes) <=> StoreSaysLow(item.id)
       /\ ("text-red-600" \in classes) <=> StoreSaysOut(item.id)

\* C24 (as stated; the code does otherwise): for every application shown,
\* getTimeLeft returns 'Expired' exactly when the store's timeRemaining is
\* at most 0, the instant of change included, and otherwise days and hours
\* with 0 <= hours < 24 and days * 24 + hours the whole hours remaining.
TimeLeftOf(p) ==
  LET i == getPatchType(patchTypes, p.patchTypeId) IN
  getTimeLeft(p.appliedAt, IF i # 0 THEN patchTypes[i].durationHours ELSE 0, now)

C24_Original_ExpiredIffNoTimeRemaining ==
  \A k \in 1..Len(PatchesNow) :
    LET p == PatchesNow[k]
        left == TimeLeftOf(p)
    IN /\ (left.label = "Expired") <=> (p.timeRemaining <= 0)
       /\ left.label # "Expired" =>
            /\ 0 <= left.hours /\ left.hours < 24
            /\ left.days * 24 + left.hours = p.timeRemaining \div TicksPerHour

\* C25 (as stated; the code does otherwise): all application records have
\* pairwise distinct ids and all patch types have pairwise distinct ids, also
\* when two of them are created at the same reading of the clock.
C25_Original_IdsPairwiseDistinct ==
  /\ \A i, j \in 1..Len(applications) :
       applications[i].id = applications[j].id => i = j
  /\ \A i, j \in 1..Len(patchTypes) :
       patchTypes[i].id = patchTypes[j].id => i = j

\* C26: every application record's patchTypeId names a patch type listed in
\* patchTypes, so no active patch falls back to a missing type and duration 0.
C26_ApplicationsReferToPatchTypes ==
  \A k \in 1..Len(applications) :
    getPatchType(patchTypes, applications[k].patchTypeId) # 0

C26_Witness ==
  /\ lastOp = Op("deleteCustomPatchType",
                 "Cannot delete patch type with active applications")
  /\ \E k \in 1..Len(applications) : IsCustomId(applications[k].patchTypeId)

\* C27 (as stated; the code does otherwise): the inventory holds at most one
\* entry per patchTypeId and every listed patch type has an entry; after a
\* successful deleteCustomPatchType no entry of the deleted type remains.
OneEntryPerPatchType ==
  \A i, j \in 1..Len(inventory) :
    inventory[i].patchTypeId = inventory[j].patchTypeId => i = j

EveryPatchTypeStocked ==
  \A i \in 1..Len(patchTypes) : InventoryIndex(inventory, patchTypes[i].id) # 0

C27_Original_OneInventoryEntryPerType ==
  /\ [](OneEntryPerPatchType /\ EveryPatchTypeStocked)
  /\ [][\A p \in PatchTypeArgs :
         (deleteCustomPatchType(p) /\ lastOp' = Done("deleteCustomPatchType")) =>
           InventoryIndex(inventory', p) = 0]_vars

\* C28 (as stated; the code does otherwise): applyPatch followed by
\* unapplyPatch of the application it returned puts the inventory and the
\* applications back exactly as they were before the apply; and under
\* applyPatch and unapplyPatch the count of a patch type plus the number of
\* its application records never changes.
CountOf(inv, patchTypeId) ==
  LET i == InventoryIndex(inv, patchTypeId) IN
  IF i = 0 THEN 0 ELSE inv[i].count

RecordsOf(apps, patchTypeId) ==
  Cardinality({k \in 1..Len(apps) : apps[k].patchTypeId = patchTypeId})

\* The application the last applyPatch returned, and the state before it
Returned == applications[Len(applications)]
ApplicationsBeforeApply == SubSeq(applications, 1, Len(applications) - 1)
InventoryBeforeApply ==
  [inventory EXCEPT ![InventoryIndex(inventory, Returned.patchTypeId)].count = @ + 1]

C28_Original_UnapplyUndoesApply ==
  /\ [][(lastOp = Done("applyPatch") /\ unapplyPatch(Returned.id)) =>
          /\ applications' = ApplicationsBeforeApply
          /\ inventory' = InventoryBeforeApply]_vars
  /\ [][\A p \in PatchTypeArgs, a \in ApplicationArgs :
          (applyPatch(p) \/ unapplyPatch(a)) =>
            \A q \in KnownPatchTypeIds :
              CountOf(inventory', q) + RecordsOf(applications', q)
                = CountOf(inventory, q) + RecordsOf(applications, q)]_vars

\* C30 (as stated; the code does otherwise): whenever activePatches is read,
\* a patch whose changeAt the clock has reached is reported with isExpired
\* true and timeRemaining at most 0, whatever an earlier read computed.
\* What a read of activePatches returns in the current state
PatchesRead == activePatches(applications, patchTypes, ReadActiveAt)

C30_Original_ReadReflectsCurrentTime ==
  \A k \in 1..Len(PatchesRead) :
    PatchesRead[k].changeAt <= now =>
      PatchesRead[k].isExpired /\ PatchesRead[k].timeRemaining <= 0

\* C29 (as stated; the code does otherwise): once authStore.init() and
\* notificationsStore.init() of a dashboard mount have both completed for a
\* signed-in user who has a stored preferences row, the preferences equal
\* that row, and the scan that init scheduled ran with them.
BothInitsCompleted == mount.auth = "done" /\ mount.prefs = "done"

C29_Original_PreferencesLoadedAfterMount ==
  (BothInitsCompleted /\ mount.session.ok /\ mount.row.found) =>
    preferences = RowPreferences(mount.row, SessionUser(mount.session))

====
